---- MODULE Spec2Model ----
(***************************************************************************)
(* The useChat hook (frontend/src/hooks/useChat.ts) together with the API  *)
(* client it calls (lib/api).  The hook's five pieces of React state are   *)
(* the variables; every async handler is split at its awaits: the step     *)
(* that invokes it runs the synchronous prefix and issues the request, and *)
(* one step per await runs the continuation up to the next await.  A       *)
(* handler reads activeConversationId, messages.length and conversations   *)
(* from the closure of the render it was created in, so those values are   *)
(* stored in the in-flight call; functional updates (prev => ...) read the *)
(* current state.  State updates of one continuation are committed         *)
(* together (React 18 batching, Next.js 14).                               *)
(***************************************************************************)
EXTENDS Integers, Sequences, FiniteSets, TLC

VARIABLES
    messages,               \* useState<Message[]>([])
    conversations,          \* useState<ConversationResponse[]>([])
    activeConversationId,   \* useState<string>("")
    isLoading,              \* useState(false)
    error,                  \* useState<string | null>(null)
    calls,                  \* async handler invocations suspended at an await
    server,                 \* the backend's conversations and stored turns
    now,                    \* Date.now()
    ops                     \* calls made by the hook's caller so far

vars == <<messages, conversations, activeConversationId, isLoading, error,
          calls, server, now, ops>>

----------------------------------------------------------------------------
(* Bounds of the model *)

MaxOps == 2         \* calls the hook's caller makes in one run
MaxNow == 4         \* last clock value

----------------------------------------------------------------------------
(* Values *)

\* An optional field (agent?: string): absent is <<>>, present is <<v>>.
None == <<>>
Some(v) == <<v>>

\* The empty conversation id "" ; `conv-${t}` is modelled by the clock value t.
NoId == 0
ConvId(t) == t
UnknownId == ConvId(9)

\* error: string | null
Null == "null"

\* Strings the hook inspects character by character are sequences of characters.
NewConversationTitle ==
    <<"N","e","w"," ","C","o","n","v","e","r","s","a","t","i","o","n">>
RenamedTitle == <<"R","e","n","a","m","e","d">>
BlankContent == <<" ", " ">>
\* 30 characters, of which the first is a space
ShortContent ==
    <<" ","H","o","w"," ","m","u","c","h"," ","i","s"," ","6","5"," ","x"," ","3",".","1","1",
      " ","p","l","u","s"," ","1","?">>
\* 33 characters, of which the first and the last are spaces
LongContent ==
    <<" ","C","a","l","c","u","l","a","t","e"," ","6","5"," ","x"," ","3",".","1","1",
      " ","a","n","d"," ","t","h","e"," ","f","e","e"," ">>
Contents == {BlankContent, ShortContent, LongContent}

TitleLimit == 30
Ellipsis == <<".", ".", ".">>

Min(a, b) == IF a < b THEN a ELSE b

\* The sequence s without its i-th element.
RemoveAt(s, i) == SubSeq(s, 1, i - 1) \o SubSeq(s, i + 1, Len(s))

IsSpace(ch) == ch = " "

\* String.prototype.trim
RECURSIVE TrimStart(_)
TrimStart(s) ==
    IF s # <<>> /\ IsSpace(Head(s)) THEN TrimStart(Tail(s)) ELSE s

RECURSIVE TrimEnd(_)
TrimEnd(s) ==
    IF s # <<>> /\ IsSpace(s[Len(s)]) THEN TrimEnd(SubSeq(s, 1, Len(s) - 1)) ELSE s

trim(s) == TrimEnd(TrimStart(s))

\* content.substring(0, n)
substring0(s, n) == SubSeq(s, 1, Min(n, Len(s)))

----------------------------------------------------------------------------
(* Messages (interface Message).  timestamp is never read and is left out. *)

ReplyText == <<"o", "k">>
ApologyText ==
    <<"S","o","r","r","y",","," ","I"," ","e","n","c","o","u","n","t","e","r","e","d",
      " ","a","n"," ","e","r","r","o","r"," ","p","r","o","c","e","s","s","i","n","g",
      " ","y","o","u","r"," ","r","e","q","u","e","s","t","."," ","P","l","e","a","s","e",
      " ","t","r","y"," ","a","g","a","i","n",".">>

\* The agent_workflow values the backend answers with in this model.
Workflows ==
    { Some(<<>>),
      Some(<<[agent |-> "RouterAgent"], [agent |-> "MathAgent"]>>) }

\* the agent of the first step instead of the last
firstAgent(agent_workflow) ==
    IF agent_workflow = None THEN None
    ELSE LET wf == agent_workflow[1]
         IN  IF Len(wf) = 0 THEN None ELSE Some(wf[1].agent)

\* response.agent_workflow?.[response.agent_workflow.length - 1]?.agent
lastAgent(agent_workflow) ==
    IF agent_workflow = None THEN None
    ELSE LET wf == agent_workflow[1]
         IN  IF Len(wf) = 0 THEN None ELSE Some(wf[Len(wf)].agent)

\* a user message that keeps the whitespace around the content
userMessageUntrimmed(content, t) ==
    [ id |-> [now |-> t, suffix |-> ""],
      content |-> content,
      isUser |-> TRUE,
      agent |-> None,
      agentWorkflow |-> None ]

userMessage(content, t) ==
    [ id |-> [now |-> t, suffix |-> ""],
      content |-> trim(content),
      isUser |-> TRUE,
      agent |-> None,
      agentWorkflow |-> None ]

botMessage(response, t) ==
    [ id |-> [now |-> t, suffix |-> "-bot"],
      content |-> response.response,
      isUser |-> FALSE,
      agent |-> lastAgent(response.agent_workflow),
      agentWorkflow |-> response.agent_workflow ]

errorMessage(t) ==
    [ id |-> [now |-> t, suffix |-> "-error"],
      content |-> ApologyText,
      isUser |-> FALSE,
      agent |-> Some("ErrorHandler"),
      agentWorkflow |-> None ]

\* a title cut at the limit with nothing after it
autoTitleNoEllipsis(content) == substring0(content, TitleLimit)

\* const title = content.length > 30 ? content.substring(0, 30) + "..." : content
autoTitle(content) ==
    IF Len(content) > TitleLimit
    THEN substring0(content, TitleLimit) \o Ellipsis
    ELSE content

----------------------------------------------------------------------------
(* The backend, as the interface table describes it: a table of            *)
(* conversation records, newest first.  A request is handled when it       *)
(* reaches the backend, that is in the step that issues it; its response   *)
(* is delivered in a later step.                                           *)

\* The hook reads conversation_id and title only; the other fields of a
\* record (user_id, created_at, updated_at, message_count) are left out.
Conversation(id, title) == [conversation_id |-> id, title |-> title]

NoConversation == Conversation(NoId, <<>>)
NoChat == [response |-> <<>>, agent_workflow |-> None]

Ids(convs) == {convs[i].conversation_id : i \in 1..Len(convs)}

Find(convs, id) ==
    LET i == CHOOSE i \in 1..Len(convs) : convs[i].conversation_id = id
    IN  convs[i]

Request(endpoint, id, title) ==
    [endpoint |-> endpoint, conversation_id |-> id, title |-> title]

\* The backend's state: its conversation records, newest first, and for each
\* of them the number of chat turns it has stored.
Backend(convs, turns) == [conversations |-> convs, turns |-> turns]

\* Whether the backend answers the request with a success status.
Accepts(srv, req) ==
    CASE req.endpoint = "GET /conversations/user" -> TRUE
      [] req.endpoint = "POST /conversations" ->
            req.conversation_id \notin Ids(srv.conversations)
      [] OTHER -> req.conversation_id \in Ids(srv.conversations)

\* The backend's state after it handled an accepted request.
Handle(srv, req) ==
    CASE req.endpoint = "POST /conversations" ->
            Backend(<<Conversation(req.conversation_id, req.title)>> \o srv.conversations,
                    [id \in DOMAIN srv.turns \cup {req.conversation_id} |->
                        IF id = req.conversation_id THEN 0 ELSE srv.turns[id]])
      [] req.endpoint = "PUT /conversations/title" ->
            Backend([i \in 1..Len(srv.conversations) |->
                        IF srv.conversations[i].conversation_id = req.conversation_id
                        THEN [srv.conversations[i] EXCEPT !.title = req.title]
                        ELSE srv.conversations[i]],
                    srv.turns)
      [] req.endpoint = "DELETE /conversations" ->
            Backend(SelectSeq(srv.conversations,
                              LAMBDA c : c.conversation_id # req.conversation_id),
                    [id \in DOMAIN srv.turns \ {req.conversation_id} |-> srv.turns[id]])
      [] req.endpoint = "POST /chat" ->
            Backend(srv.conversations,
                    [srv.turns EXCEPT ![req.conversation_id] = @ + 1])
      [] OTHER -> srv

\* What can happen to one request: the network drops it, the backend answers
\* with an error status without handling it, the backend handles it and
\* answers with a JSON body, or handles it and answers with an empty or
\* malformed body.
Network == {"down", "error", "up", "garbled"}

Served(srv, req, net) == net \in {"up", "garbled"} /\ Accepts(srv, req)

ServerAfter(srv, req, net) ==
    IF Served(srv, req, net) THEN Handle(srv, req) ELSE srv

\* What fetch() settles with.
fetch(srv, req, net) ==
    [ rejected |-> net = "down",
      ok |-> Served(srv, req, net),
      body |-> IF net = "garbled" THEN "empty" ELSE "json" ]

----------------------------------------------------------------------------
(* The API client *)

\* apiRequest: how the promise settles, "resolved" or the error thrown.
apiRequest(response) ==
    IF response.rejected THEN "TypeError"           \* await fetch(url, ...)
    ELSE IF ~response.ok THEN "ApiError"            \* if (!response.ok) throw
    ELSE IF response.body # "json" THEN "SyntaxError"   \* return response.json()
    ELSE "resolved"

\* One request of the client, handled by the backend in state srv: what the
\* awaited promise will settle with.  wf is the workflow a chat answer carries.
Settlement(srv, req, net, wf) ==
    LET ok == apiRequest(fetch(srv, req, net)) = "resolved"
        after == ServerAfter(srv, req, net)
    IN  [ ok |-> ok,
          list |-> IF ok /\ req.endpoint = "GET /conversations/user"
                   THEN after.conversations ELSE <<>>,
          conv |-> IF ok /\ req.endpoint \in {"POST /conversations",
                                              "PUT /conversations/title"}
                   THEN Find(after.conversations, req.conversation_id)
                   ELSE NoConversation,
          chat |-> IF ok /\ req.endpoint = "POST /chat"
                   THEN [response |-> ReplyText, agent_workflow |-> wf]
                   ELSE NoChat ]

\* The outcomes of one request: the backend's table afterwards and what the
\* awaited promise will settle with.
Exchanges(srv, req) ==
    { [server |-> ServerAfter(srv, req, net), res |-> Settlement(srv, req, net, wf)] :
        net \in Network, wf \in Workflows }

sendChatMessage(conversation_id) == Request("POST /chat", conversation_id, <<>>)
createConversation(conversation_id, title) ==
    Request("POST /conversations", conversation_id, title)
getUserConversations == Request("GET /conversations/user", NoId, <<>>)
updateConversationTitle(conversationId, title) ==
    Request("PUT /conversations/title", conversationId, title)
deleteConversation(conversationId) ==
    Request("DELETE /conversations", conversationId, <<>>)

----------------------------------------------------------------------------
(* Handler invocations suspended at an await.  active, first and           *)
(* conversations are the closure's activeConversationId,                   *)
(* messages.length === 0 and conversations.                                *)

Call(op, await, active, arg, first, content, convs, res) ==
    [ op |-> op, await |-> await, active |-> active, arg |-> arg,
      first |-> first, content |-> content, conversations |-> convs,
      res |-> res ]

\* loadConversations() up to its await, called from a render whose
\* activeConversationId is active.
loadConversationsCall(active, res) ==
    Call("loadConversations", "getUserConversations", active, NoId, FALSE, <<>>,
         <<>>, res)

\* an effect without dependencies: it calls loadConversations after every update
useEffectEveryRender(prevActive, nextActive, srv) ==
    { <<loadConversationsCall(nextActive, x.res)>> :
        x \in Exchanges(srv, getUserConversations) }

\* useEffect(() => { loadConversations() }, [loadConversations]): the callback
\* is a new one exactly when activeConversationId changed (userId is fixed).
\* The set holds the calls the effect can leave in flight, one per outcome of
\* its request.
useEffect(prevActive, nextActive, srv) ==
    IF nextActive # prevActive
    THEN { <<loadConversationsCall(nextActive, x.res)>> :
             x \in Exchanges(srv, getUserConversations) }
    ELSE { <<>> }

\* a List that keeps the entries of the previous snapshot it did not return
loadedConversationsMerged(c) ==
    IF c.res.ok
    THEN c.res.list \o SelectSeq(conversations,
                          LAMBDA conv : conv.conversation_id \notin Ids(c.res.list))
    ELSE conversations

\* loadConversations after its await: the new conversations,
\* activeConversationId and error.
loadedConversations(c) ==
    IF c.res.ok THEN c.res.list ELSE conversations

loadedActive(c) ==
    IF c.res.ok /\ Len(c.res.list) > 0 /\ c.active = NoId
    THEN c.res.list[1].conversation_id
    ELSE activeConversationId

loadedError(c) ==
    IF c.res.ok THEN error ELSE "Failed to load conversations"

----------------------------------------------------------------------------
Init ==
    /\ messages = <<>>
    /\ conversations = <<>>
    /\ activeConversationId = NoId
    /\ isLoading = FALSE
    /\ error = Null
    \* two conversations of earlier sessions, the older one with a stored turn
    /\ server = Backend(<<Conversation(ConvId(2), NewConversationTitle),
                          Conversation(ConvId(1), RenamedTitle)>>,
                        [id \in {ConvId(1), ConvId(2)} |-> IF id = ConvId(1) THEN 1 ELSE 0])
    /\ now = 3
    /\ ops = 0
    \* the mount effect has called loadConversations
    /\ \E x \in Exchanges(server, getUserConversations) :
          calls = <<loadConversationsCall(NoId, x.res)>>

Tick ==
    /\ now < MaxNow
    /\ now' = now + 1
    /\ UNCHANGED <<messages, conversations, activeConversationId, isLoading,
                   error, calls, server, ops>>

\* loadConversations called by the caller of the hook
loadConversations ==
    /\ ops < MaxOps
    /\ ops' = ops + 1
    /\ \E x \in Exchanges(server, getUserConversations) :
          calls' = Append(calls, loadConversationsCall(activeConversationId, x.res))
    /\ UNCHANGED <<messages, conversations, activeConversationId, isLoading,
                   error, server, now>>

loadConversationsSettled(i) ==
    LET c == calls[i] IN
    /\ c.op = "loadConversations"
    /\ conversations' = loadedConversations(c)
    /\ activeConversationId' = loadedActive(c)
    /\ error' = loadedError(c)
    /\ \E effect \in useEffect(activeConversationId, loadedActive(c), server) :
          calls' = RemoveAt(calls, i) \o effect
    /\ UNCHANGED <<messages, isLoading, server, now, ops>>

createNewConversation ==
    /\ ops < MaxOps
    /\ ops' = ops + 1
    /\ isLoading' = TRUE
    /\ error' = Null
    /\ \E x \in Exchanges(server, createConversation(ConvId(now), NewConversationTitle)) :
        /\ server' = x.server
        /\ calls' = Append(calls,
              Call("createNewConversation", "createConversation",
                   activeConversationId, ConvId(now), FALSE, <<>>, <<>>, x.res))
    /\ UNCHANGED <<messages, conversations, activeConversationId, now>>

\* a Create that puts the new conversation at the end of the list
createNewConversationSettledAppend(i) ==
    LET c == calls[i] IN
    /\ c.op = "createNewConversation"
    /\ IF c.res.ok
       THEN /\ conversations' = conversations \o <<c.res.conv>>
            /\ activeConversationId' = c.arg
            /\ messages' = <<>>
            /\ error' = error
       ELSE /\ error' = "Failed to create new conversation"
            /\ UNCHANGED <<conversations, activeConversationId, messages>>
    /\ isLoading' = FALSE
    /\ \E effect \in useEffect(activeConversationId, activeConversationId', server) :
          calls' = RemoveAt(calls, i) \o effect
    /\ UNCHANGED <<server, now, ops>>

\* a Create that keeps a local record of the conversation when its request fails
createNewConversationSettledLocalOnly(i) ==
    LET c == calls[i] IN
    /\ c.op = "createNewConversation"
    /\ conversations' =
          <<IF c.res.ok THEN c.res.conv ELSE Conversation(c.arg, NewConversationTitle)>>
          \o conversations
    /\ activeConversationId' = IF c.res.ok THEN c.arg ELSE activeConversationId
    /\ messages' = IF c.res.ok THEN <<>> ELSE messages
    /\ error' = IF c.res.ok THEN error ELSE "Failed to create new conversation"
    /\ isLoading' = FALSE
    /\ \E effect \in useEffect(activeConversationId, activeConversationId', server) :
          calls' = RemoveAt(calls, i) \o effect
    /\ UNCHANGED <<server, now, ops>>

createNewConversationSettled(i) ==
    LET c == calls[i] IN
    /\ c.op = "createNewConversation"
    /\ IF c.res.ok
       THEN /\ conversations' = <<c.res.conv>> \o conversations
            /\ activeConversationId' = c.arg
            /\ messages' = <<>>
            /\ error' = error
       ELSE /\ error' = "Failed to create new conversation"
            /\ UNCHANGED <<conversations, activeConversationId, messages>>
    /\ isLoading' = FALSE
    /\ \E effect \in useEffect(activeConversationId, activeConversationId', server) :
          calls' = RemoveAt(calls, i) \o effect
    /\ UNCHANGED <<server, now, ops>>

selectConversation(conversationId) ==
    /\ ops < MaxOps
    /\ ops' = ops + 1
    /\ activeConversationId' = conversationId
    /\ messages' = <<>>
    /\ error' = Null
    /\ \E effect \in useEffect(activeConversationId, conversationId, server) :
          calls' = calls \o effect
    /\ UNCHANGED <<conversations, isLoading, server, now>>

\* a guard that tests the content as it is
sendMessageSkipsEmptyOnly(content) ==
    content = <<>> \/ activeConversationId = NoId

\* if (!content.trim() || !activeConversationId) return
sendMessageSkips(content) ==
    trim(content) = <<>> \/ activeConversationId = NoId

sendMessage(content) ==
    IF sendMessageSkips(content)
    THEN UNCHANGED vars
    ELSE
        /\ ops < MaxOps
        /\ ops' = ops + 1
        /\ isLoading' = TRUE
        /\ error' = Null
        /\ messages' = Append(messages, userMessage(content, now))
        /\ \E x \in Exchanges(server, sendChatMessage(activeConversationId)) :
            /\ server' = x.server
            /\ calls' = Append(calls,
                  Call("sendMessage", "sendChatMessage", activeConversationId,
                       NoId, Len(messages) = 0, content, <<>>, x.res))
        /\ UNCHANGED <<conversations, activeConversationId, now>>

\* a catch block that takes the optimistic message back
sendMessageCatchRollback(i) ==
    /\ error' = "Failed to send message"
    /\ messages' = Append(SubSeq(messages, 1, Len(messages) - 1), errorMessage(now))
    /\ isLoading' = FALSE
    /\ calls' = RemoveAt(calls, i)
    /\ UNCHANGED <<conversations, activeConversationId, server, now, ops>>

\* a catch block with no finally after it
sendMessageCatchNoFinally(i) ==
    /\ error' = "Failed to send message"
    /\ messages' = Append(messages, errorMessage(now))
    /\ isLoading' = isLoading
    /\ calls' = RemoveAt(calls, i)
    /\ UNCHANGED <<conversations, activeConversationId, server, now, ops>>

\* catch (err) { ... } finally { setIsLoading(false) } of sendMessage
sendMessageCatch(i) ==
    /\ error' = "Failed to send message"
    /\ messages' = Append(messages, errorMessage(now))
    /\ isLoading' = FALSE
    /\ calls' = RemoveAt(calls, i)
    /\ UNCHANGED <<conversations, activeConversationId, server, now, ops>>

\* await loadConversations() of sendMessage, up to the await inside it
sendMessageRefresh(i) ==
    \E x \in Exchanges(server, getUserConversations) :
        calls' = [calls EXCEPT ![i].await = "getUserConversations", ![i].res = x.res]

\* a continuation that refreshes the list before anything else
sendChatMessageSettledRefreshFirst(i) ==
    LET c == calls[i] IN
    /\ c.op = "sendMessage"
    /\ c.await = "sendChatMessage"
    /\ IF ~c.res.ok
       THEN sendMessageCatch(i)
       ELSE /\ sendMessageRefresh(i)
            /\ UNCHANGED <<messages, conversations, activeConversationId,
                           isLoading, error, server, now, ops>>

\* the continuation of: const response = await sendChatMessage(request)
sendChatMessageSettled(i) ==
    LET c == calls[i] IN
    /\ c.op = "sendMessage"
    /\ c.await = "sendChatMessage"
    /\ IF ~c.res.ok
       THEN sendMessageCatch(i)
       ELSE
        /\ messages' = Append(messages, botMessage(c.res.chat, now))
        /\ IF c.first
           THEN \E x \in Exchanges(server,
                              updateConversationTitle(c.active, autoTitle(c.content))) :
                /\ server' = x.server
                /\ calls' = [calls EXCEPT
                      ![i].await = "updateConversationTitle", ![i].res = x.res]
           ELSE /\ sendMessageRefresh(i)
                /\ server' = server
        /\ UNCHANGED <<conversations, activeConversationId, isLoading, error, now, ops>>

\* the continuation of: await updateConversationTitle(activeConversationId, title)
sendRenameSettled(i) ==
    LET c == calls[i] IN
    /\ c.op = "sendMessage"
    /\ c.await = "updateConversationTitle"
    /\ IF ~c.res.ok
       THEN sendMessageCatch(i)
       ELSE
        /\ conversations' =
              [k \in 1..Len(conversations) |->
                  IF conversations[k].conversation_id = c.active
                  THEN [conversations[k] EXCEPT !.title = autoTitle(c.content)]
                  ELSE conversations[k]]
        /\ sendMessageRefresh(i)
        /\ UNCHANGED <<messages, activeConversationId, isLoading, error, server, now, ops>>

\* the continuation of the await inside loadConversations, then the end of
\* sendMessage's try block and its finally
sendRefreshSettled(i) ==
    LET c == calls[i] IN
    /\ c.op = "sendMessage"
    /\ c.await = "getUserConversations"
    /\ conversations' = loadedConversations(c)
    /\ activeConversationId' = loadedActive(c)
    /\ error' = loadedError(c)
    /\ isLoading' = FALSE
    /\ \E effect \in useEffect(activeConversationId, loadedActive(c), server) :
          calls' = RemoveAt(calls, i) \o effect
    /\ UNCHANGED <<messages, server, now, ops>>

deleteConversationHandler(conversationId) ==
    /\ ops < MaxOps
    /\ ops' = ops + 1
    /\ \E x \in Exchanges(server, deleteConversation(conversationId)) :
        /\ server' = x.server
        /\ calls' = Append(calls,
              Call("deleteConversationHandler", "deleteConversation",
                   activeConversationId, conversationId, FALSE, <<>>,
                   conversations, x.res))
    /\ UNCHANGED <<messages, conversations, activeConversationId, isLoading,
                   error, now>>

deleteConversationSettled(i) ==
    LET c == calls[i]
        remainingConversations ==
            SelectSeq(c.conversations, LAMBDA conv : conv.conversation_id # c.arg)
    IN
    /\ c.op = "deleteConversationHandler"
    /\ IF c.res.ok
       THEN /\ conversations' =
                  SelectSeq(conversations, LAMBDA conv : conv.conversation_id # c.arg)
            /\ IF c.arg = c.active
               THEN IF Len(remainingConversations) > 0
                    THEN /\ activeConversationId' =
                                remainingConversations[1].conversation_id
                         /\ messages' = messages
                    ELSE /\ activeConversationId' = NoId
                         /\ messages' = <<>>
               ELSE UNCHANGED <<activeConversationId, messages>>
            /\ error' = error
       ELSE /\ error' = "Failed to delete conversation"
            /\ UNCHANGED <<conversations, activeConversationId, messages>>
    /\ \E effect \in useEffect(activeConversationId, activeConversationId', server) :
          calls' = RemoveAt(calls, i) \o effect
    /\ UNCHANGED <<isLoading, server, now, ops>>

updateConversationTitleHandler(conversationId, title) ==
    /\ ops < MaxOps
    /\ ops' = ops + 1
    /\ \E x \in Exchanges(server, updateConversationTitle(conversationId, title)) :
        /\ server' = x.server
        /\ calls' = Append(calls,
              Call("updateConversationTitleHandler", "updateConversationTitle",
                   activeConversationId, conversationId, FALSE, <<>>, <<>>, x.res))
    /\ UNCHANGED <<messages, conversations, activeConversationId, isLoading,
                   error, now>>

\* a Rename that moves the renamed conversation to the head of the list
updateConversationTitleSettledToFront(i) ==
    LET c == calls[i] IN
    /\ c.op = "updateConversationTitleHandler"
    /\ IF c.res.ok
       THEN /\ conversations' =
                  <<c.res.conv>> \o
                  SelectSeq(conversations, LAMBDA conv : conv.conversation_id # c.arg)
            /\ error' = error
       ELSE /\ error' = "Failed to update conversation title"
            /\ conversations' = conversations
    /\ calls' = RemoveAt(calls, i)
    /\ UNCHANGED <<messages, activeConversationId, isLoading, server, now, ops>>

updateConversationTitleSettled(i) ==
    LET c == calls[i] IN
    /\ c.op = "updateConversationTitleHandler"
    /\ IF c.res.ok
       THEN /\ conversations' =
                  [k \in 1..Len(conversations) |->
                      IF conversations[k].conversation_id = c.arg
                      THEN c.res.conv ELSE conversations[k]]
            /\ error' = error
       ELSE /\ error' = "Failed to update conversation title"
            /\ conversations' = conversations
    /\ calls' = RemoveAt(calls, i)
    /\ UNCHANGED <<messages, activeConversationId, isLoading, server, now, ops>>

----------------------------------------------------------------------------
\* Ids the caller passes: those listed (what the sidebar offers) and one that
\* no conversation has.
SelectableIds == Ids(conversations) \cup {UnknownId}

Next ==
    \/ Tick
    \/ loadConversations
    \/ createNewConversation
    \/ \E content \in Contents : sendMessage(content)
    \/ \E id \in SelectableIds : selectConversation(id)
    \/ \E id \in Ids(conversations) : deleteConversationHandler(id)
    \/ \E id \in Ids(conversations) : updateConversationTitleHandler(id, RenamedTitle)
    \/ \E i \in 1..Len(calls) : loadConversationsSettled(i)
    \/ \E i \in 1..Len(calls) : createNewConversationSettled(i)
    \/ \E i \in 1..Len(calls) : sendChatMessageSettled(i)
    \/ \E i \in 1..Len(calls) : sendRenameSettled(i)
    \/ \E i \in 1..Len(calls) : sendRefreshSettled(i)
    \/ \E i \in 1..Len(calls) : deleteConversationSettled(i)
    \/ \E i \in 1..Len(calls) : updateConversationTitleSettled(i)

Spec == Init /\ [][Next]_vars

\* Every transport call resolves or rejects: the continuation of the oldest
\* suspended call is eventually run.
SettleOldest ==
    /\ calls # <<>>
    /\ \/ loadConversationsSettled(1)
       \/ createNewConversationSettled(1)
       \/ sendChatMessageSettled(1)
       \/ sendRenameSettled(1)
       \/ sendRefreshSettled(1)
       \/ deleteConversationSettled(1)
       \/ updateConversationTitleSettled(1)

FairSpec == Spec /\ WF_vars(SettleOldest)

----------------------------------------------------------------------------
(* Vocabulary of the properties *)

\* The calls of handler op suspended at await.
Awaiting(cs, op, await) ==
    {cs[i] : i \in {k \in 1..Len(cs) : cs[k].op = op /\ cs[k].await = await}}

InFlight(ops_) == \E i \in 1..Len(calls) : calls[i].op \in ops_

\* The user's message of call c, whatever its id.
IsUserMessageOf(m, c) == m.isUser /\ m.content = trim(c.content)
HasUserMessageOf(msgs, c) == \E k \in 1..Len(msgs) : IsUserMessageOf(msgs[k], c)

IsErrorHandlerMessage(m) ==
    ~m.isUser /\ m.agent = Some("ErrorHandler") /\ m.agentWorkflow = None

----------------------------------------------------------------------------
\* C1: in every reachable state activeConversationId is empty or is the
\* conversation id of an entry of conversations.
C1_ActiveIsListed ==
    activeConversationId = NoId \/ activeConversationId \in Ids(conversations)

\* C2: every step that changes activeConversationId leaves messages empty.
C2_SwitchClearsMessages ==
    [][activeConversationId' # activeConversationId => messages' = <<>>]_vars

\* C3: a successful Delete of the active conversation makes the first
\* remaining conversation active, or none when none remains, and leaves
\* messages empty.
C3_DeleteActivePromotes ==
    [][\A i \in 1..Len(calls) :
          ( /\ deleteConversationSettled(i)
            /\ calls[i].res.ok
            /\ calls[i].arg = activeConversationId )
          => LET rest == SelectSeq(conversations,
                            LAMBDA conv : conv.conversation_id # calls[i].arg)
             IN  /\ messages' = <<>>
                 /\ activeConversationId' =
                       IF rest = <<>> THEN NoId ELSE rest[1].conversation_id]_vars

\* C4 as stated: while a sendMessage call awaits sendChatMessage, messages
\* holds the user's trimmed message.
C4_UserMessageWhileAwaiting ==
    \A c \in Awaiting(calls, "sendMessage", "sendChatMessage") :
        HasUserMessageOf(messages, c)

\* C4 as amended: the invoking step appends the user's trimmed message, and
\* while the call awaits sendChatMessage the message stays unless a step
\* empties messages.
C4_UserMessageUntilCleared ==
    [][ /\ ( /\ Len(calls') = Len(calls) + 1
             /\ calls'[Len(calls')].op = "sendMessage" )
           => /\ Len(messages') = Len(messages) + 1
              /\ SubSeq(messages', 1, Len(messages)) = messages
              /\ IsUserMessageOf(messages'[Len(messages')], calls'[Len(calls')])
        /\ \A c \in Awaiting(calls', "sendMessage", "sendChatMessage") :
              \/ HasUserMessageOf(messages', c)
              \/ /\ c \in Awaiting(calls, "sendMessage", "sendChatMessage")
                 /\ ~HasUserMessageOf(messages, c) \/ messages' = <<>> ]_vars

\* a sendMessage call awaits sendChatMessage and its message, which trim
\* shortened, is the last entry of messages
C4_Witness ==
    \E c \in Awaiting(calls, "sendMessage", "sendChatMessage") :
        /\ messages # <<>>
        /\ IsUserMessageOf(messages[Len(messages)], c)
        /\ trim(c.content) # c.content

\* C5 as stated: when sendChatMessage rejects for a sendMessage started on an
\* empty list, messages is then the user's message followed by the
\* ErrorHandler message, and error is set.
C5_FailureLeavesTwoEntries ==
    [][\A i \in 1..Len(calls) :
          ( /\ sendChatMessageSettled(i)
            /\ ~calls[i].res.ok
            /\ calls[i].first )
          => /\ Len(messages') = 2
             /\ IsUserMessageOf(messages'[1], calls[i])
             /\ IsErrorHandlerMessage(messages'[2])
             /\ error' # Null]_vars

\* C5 as amended: when sendChatMessage rejects, the settling step appends the
\* ErrorHandler message to messages, keeps every entry that was there, and
\* sets error.
C5_FailureAppendsErrorMessage ==
    [][\A i \in 1..Len(calls) :
          ( /\ sendChatMessageSettled(i)
            /\ ~calls[i].res.ok )
          => /\ Len(messages') = Len(messages) + 1
             /\ SubSeq(messages', 1, Len(messages)) = messages
             /\ IsErrorHandlerMessage(messages'[Len(messages')])
             /\ error' # Null]_vars

\* a failed turn that nothing interleaved with: the user's message, the
\* ErrorHandler message, and the error
C5_Witness ==
    /\ Len(messages) = 2
    /\ messages[1].isUser
    /\ IsErrorHandlerMessage(messages[2])
    /\ error = "Failed to send message"
    /\ calls = <<>>

\* C6: a sendMessage issues the auto-title rename only on the conversation's
\* first turn: a call whose chat call succeeds is invoked as a first turn
\* only when the backend has stored no turn of the conversation, and a
\* successful chat call is followed by the rename exactly for a call invoked
\* as a first turn.
C6_RenameOnlyOnFirstTurn ==
    [][ /\ ( /\ Len(calls') = Len(calls) + 1
             /\ calls'[Len(calls')].op = "sendMessage"
             /\ calls'[Len(calls')].res.ok
             /\ activeConversationId \in DOMAIN server.turns )
           => ( calls'[Len(calls')].first
                  => server.turns[activeConversationId] = 0 )
        /\ \A i \in 1..Len(calls) :
              (sendChatMessageSettled(i) /\ calls[i].res.ok)
              => ( calls'[i].await = "updateConversationTitle"
                     <=> calls[i].first ) ]_vars

\* C7: a message with an agent and a workflow has a non-empty workflow whose
\* last step names the agent; the reply built from a successful response
\* stores the response's workflow as it is and has the last step's agent, or
\* none when the workflow is empty.
C7_WorkflowAttribution ==
    /\ [](\A k \in 1..Len(messages) :
            (messages[k].agent # None /\ messages[k].agentWorkflow # None)
            => LET wf == messages[k].agentWorkflow[1]
               IN  Len(wf) > 0 /\ messages[k].agent = <<wf[Len(wf)].agent>>)
    /\ [][\A i \in 1..Len(calls) :
            (sendChatMessageSettled(i) /\ calls[i].res.ok)
            => LET wf == calls[i].res.chat.agent_workflow[1]
                   m == messages'[Len(messages')]
               IN  /\ Len(messages') = Len(messages) + 1
                   /\ ~m.isUser
                   /\ m.agentWorkflow = <<wf>>
                   /\ m.agent = IF wf = <<>> THEN <<>>
                                ELSE <<wf[Len(wf)].agent>>]_vars

\* a reply of two workflow steps, attributed to the second
C7_Witness ==
    \E k \in 1..Len(messages) :
        /\ messages[k].agent = <<"MathAgent">>
        /\ messages[k].agentWorkflow # None
        /\ Len(messages[k].agentWorkflow[1]) = 2

\* C8: isLoading is true while a Create, SendMessage, Rename or Delete is in
\* flight.
C8_BusyWhileInFlight ==
    InFlight({"createNewConversation", "sendMessage",
              "deleteConversationHandler", "updateConversationTitleHandler"})
    => isLoading

\* The number of calls in flight that set isLoading when invoked.
BusyCalls(cs) ==
    Cardinality({i \in 1..Len(cs) : cs[i].op \in {"createNewConversation", "sendMessage"}})

\* C9: the step that ends a Create or a SendMessage, on whichever path,
\* clears isLoading, and nothing else changes it but their invocation; a
\* skipped SendMessage leaves it alone; when every transport call settles, a
\* Create or SendMessage in flight leads to isLoading false with none in flight.
C9_BusyClearedOnEveryPath ==
    /\ [][ /\ BusyCalls(calls') < BusyCalls(calls) => ~isLoading'
           /\ (isLoading /\ ~isLoading') => BusyCalls(calls') = BusyCalls(calls) - 1
           /\ (~isLoading /\ isLoading') => BusyCalls(calls') = BusyCalls(calls) + 1
           /\ \A content \in Contents :
                (sendMessageSkips(content) /\ sendMessage(content))
                => isLoading' = isLoading ]_vars
    /\ (BusyCalls(calls) > 0) ~> (~isLoading /\ BusyCalls(calls) = 0)

\* a SendMessage ended in its catch block after a successful chat call (the
\* rename failed) and isLoading is false
C9_Witness ==
    /\ ~isLoading
    /\ BusyCalls(calls) = 0
    /\ Len(messages) = 3
    /\ IsErrorHandlerMessage(messages[3])
    /\ ~messages[2].isUser /\ ~IsErrorHandlerMessage(messages[2])

\* The error a handler sets when its request fails.
OwnError(op) ==
    CASE op = "loadConversations" -> "Failed to load conversations"
      [] op = "createNewConversation" -> "Failed to create new conversation"
      [] op = "deleteConversationHandler" -> "Failed to delete conversation"
      [] op = "updateConversationTitleHandler" -> "Failed to update conversation title"
      [] OTHER -> "Failed to send message"

\* C10: the step that completes an operation successfully leaves error
\* empty, and the step that completes a failed one leaves that operation's
\* message in error.
C10_SuccessClearsError ==
    [][ /\ \A i \in 1..Len(calls) :
              ( \/ loadConversationsSettled(i)
                \/ createNewConversationSettled(i)
                \/ deleteConversationSettled(i)
                \/ updateConversationTitleSettled(i)
                \/ sendRefreshSettled(i)
                \/ sendChatMessageSettled(i) /\ ~calls[i].res.ok
                \/ sendRenameSettled(i) /\ ~calls[i].res.ok )
              => IF calls[i].res.ok
                 THEN error' = Null
                 ELSE calls[i].await = "getUserConversations"
                      \/ error' = OwnError(calls[i].op)
        /\ \A id \in SelectableIds : selectConversation(id) => error' = Null ]_vars

\* The step that completes the failed call i of a List, Create, Delete or
\* Rename.
FailedSettle(i) ==
    /\ ~calls[i].res.ok
    /\ \/ loadConversationsSettled(i)
       \/ createNewConversationSettled(i)
       \/ deleteConversationSettled(i)
       \/ updateConversationTitleSettled(i)

\* C11: the step that completes a failed List, Create, Delete or Rename
\* leaves conversations, activeConversationId and messages as they were,
\* sets that operation's error and issues no request; the step that invokes
\* one of these operations leaves the three as they were too.
C11_FailureChangesOnlyError ==
    [][ /\ \A i \in 1..Len(calls) :
              FailedSettle(i)
              => /\ conversations' = conversations
                 /\ activeConversationId' = activeConversationId
                 /\ messages' = messages
                 /\ error' = OwnError(calls[i].op)
                 /\ calls' = RemoveAt(calls, i)
                 /\ server' = server
        /\ ( /\ Len(calls') = Len(calls) + 1
             /\ SubSeq(calls', 1, Len(calls)) = calls
             /\ calls'[Len(calls')].op \in {"createNewConversation",
                     "deleteConversationHandler", "updateConversationTitleHandler"} )
           => UNCHANGED <<conversations, activeConversationId, messages>> ]_vars

\* a Create failed while a conversation was active and had messages: they
\* are all still there
C11_Witness ==
    /\ error = "Failed to create new conversation"
    /\ ~isLoading
    /\ messages # <<>>
    /\ activeConversationId \in Ids(conversations)

\* C12: a List that completes while activeConversationId is non-empty leaves
\* it as it is; one that completes while it is empty changes it only when
\* the result is non-empty, to the first returned item.
C12_ListKeepsActive ==
    [][\A i \in 1..Len(calls) :
          (loadConversationsSettled(i) \/ sendRefreshSettled(i))
          => IF activeConversationId # NoId
             THEN activeConversationId' = activeConversationId
             ELSE activeConversationId' # activeConversationId
                  => /\ calls[i].res.ok
                     /\ calls[i].res.list # <<>>
                     /\ activeConversationId' =
                           calls[i].res.list[1].conversation_id]_vars

\* C13: the step that completes a successful List leaves conversations equal
\* to the returned sequence.
C13_ListReplaces ==
    [][\A i \in 1..Len(calls) :
          ( /\ loadConversationsSettled(i) \/ sendRefreshSettled(i)
            /\ calls[i].res.ok )
          => conversations' = calls[i].res.list]_vars

\* a List replaced a snapshot that held the active conversation, which the
\* backend has, by a result without it
C13_Witness ==
    /\ conversations # <<>>
    /\ activeConversationId # NoId
    /\ activeConversationId \notin Ids(conversations)
    /\ activeConversationId \in Ids(server.conversations)

\* C14: a Select, with the effects that run after it, issues no request: it
\* sets activeConversationId, empties messages and clears error, and leaves
\* the calls in flight as they were.
C14_SelectIsLocal ==
    [][\A id \in SelectableIds :
          selectConversation(id)
          => /\ activeConversationId' = id
             /\ messages' = <<>>
             /\ error' = Null
             /\ calls' = calls
             /\ UNCHANGED <<conversations, isLoading, server>>]_vars

\* C15: a Select of the conversation that is already active leaves
\* activeConversationId, conversations and isLoading as they were, messages
\* and error empty, and issues no request; its result depends on nothing it
\* changes, so selecting again yields the same state.
C15_SelectActiveIdempotent ==
    [][\A id \in SelectableIds :
          (id = activeConversationId /\ selectConversation(id))
          => /\ messages' = <<>>
             /\ error' = Null
             /\ calls' = calls
             /\ UNCHANGED <<activeConversationId, conversations, isLoading, server>>
             /\ (messages = <<>> /\ error = Null)
                  => UNCHANGED <<messages, conversations, activeConversationId,
                                 isLoading, error, calls, server>>]_vars

\* the active conversation was selected again while its turn was in flight:
\* messages is empty and the chat call is still the latest call
C15_Witness ==
    /\ messages = <<>>
    /\ error = Null
    /\ calls # <<>>
    /\ calls[Len(calls)].op = "sendMessage"
    /\ calls[Len(calls)].await = "sendChatMessage"
    /\ calls[Len(calls)].active = activeConversationId

\* C16: a sendMessage whose content is empty after trimming, or that is
\* called with no active conversation, changes nothing and issues no
\* request; a sendMessage call is in flight only for content that is not
\* blank and an active conversation.
C16_BlankSendIsNoOp ==
    [][ /\ \A content \in Contents :
              ( /\ trim(content) = <<>> \/ activeConversationId = NoId
                /\ sendMessage(content) )
              => UNCHANGED <<messages, conversations, activeConversationId,
                             isLoading, error, calls, server>>
        /\ ( /\ Len(calls') = Len(calls) + 1
             /\ calls'[Len(calls')].op = "sendMessage" )
           => /\ activeConversationId # NoId
              /\ trim(calls'[Len(calls')].content) # <<>>
              /\ calls'[Len(calls')].active = activeConversationId ]_vars

\* a conversation is active, so that only the content decides: the blank
\* content is skipped and the other is not
C16_Witness ==
    /\ activeConversationId \in Ids(conversations)
    /\ ops < MaxOps
    /\ sendMessageSkips(BlankContent)
    /\ ~sendMessageSkips(LongContent)

\* The conversation ids of a list, in its order.
IdSeq(convs) == [k \in 1..Len(convs) |-> convs[k].conversation_id]

\* The step completes a successful List (standalone or the refresh of a
\* sendMessage).
ListReplacement ==
    \E i \in 1..Len(calls) :
        /\ calls[i].res.ok
        /\ loadConversationsSettled(i) \/ sendRefreshSettled(i)

\* C17: the step that completes a successful Create puts the returned record
\* before the previous entries, which stay in their order, makes the new
\* conversation active and empties messages; a step that is not a List
\* replacement keeps the order of the ids: it leaves them, puts one before
\* them, or takes one id out.
C17_CreatePrepends ==
    [][ /\ \A i \in 1..Len(calls) :
              (createNewConversationSettled(i) /\ calls[i].res.ok)
              => /\ conversations' = <<calls[i].res.conv>> \o conversations
                 /\ calls[i].res.conv.conversation_id = calls[i].arg
                 /\ activeConversationId' = calls[i].arg
                 /\ messages' = <<>>
        /\ ~ListReplacement
           => \/ IdSeq(conversations') = IdSeq(conversations)
              \/ /\ conversations' # <<>>
                 /\ IdSeq(conversations') =
                       <<conversations'[1].conversation_id>> \o IdSeq(conversations)
              \/ \E id \in Ids(conversations) :
                    IdSeq(conversations') =
                       SelectSeq(IdSeq(conversations), LAMBDA x : x # id) ]_vars

\* a created conversation is active and at the head of the list, the two
\* loaded before it follow in their order, and messages is empty
C17_Witness ==
    /\ IdSeq(conversations) = <<activeConversationId, ConvId(2), ConvId(1)>>
    /\ activeConversationId \notin {ConvId(1), ConvId(2)}
    /\ messages = <<>>
    /\ ~isLoading

\* C18: the step that completes a successful Rename puts the returned
\* record, which has the id asked for, in the place of the entry with that
\* id and leaves the length of the list, the other entries,
\* activeConversationId and messages as they were; the step that completes a
\* failed Rename leaves conversations as it was and sets error.
C18_RenameInPlace ==
    [][\A i \in 1..Len(calls) :
          updateConversationTitleSettled(i)
          => /\ UNCHANGED <<activeConversationId, messages>>
             /\ IF calls[i].res.ok
                THEN /\ calls[i].res.conv.conversation_id = calls[i].arg
                     /\ Len(conversations') = Len(conversations)
                     /\ \A k \in 1..Len(conversations) :
                           conversations'[k] =
                              IF conversations[k].conversation_id = calls[i].arg
                              THEN calls[i].res.conv
                              ELSE conversations[k]
                ELSE /\ conversations' = conversations
                     /\ error' = "Failed to update conversation title"]_vars

\* the first of the two loaded conversations was renamed where it is
C18_Witness ==
    /\ conversations = <<Conversation(ConvId(2), RenamedTitle),
                         Conversation(ConvId(1), RenamedTitle)>>
    /\ error = Null
    /\ calls = <<>>

\* The requests the hook can issue in the current state.
IssuableRequests ==
    {getUserConversations, createConversation(ConvId(now), NewConversationTitle)}
    \cup {sendChatMessage(id) : id \in SelectableIds \cup {activeConversationId}}
    \cup {deleteConversation(id) : id \in Ids(conversations)}
    \cup {updateConversationTitle(id, RenamedTitle) : id \in Ids(conversations)}

\* C19: whatever happens to a request the hook can issue, the transport
\* call resolves or fails with an ApiError.
C19_SingleErrorKind ==
    \A req \in IssuableRequests, net \in Network :
        apiRequest(fetch(server, req, net)) \in {"resolved", "ApiError"}

\* C20: a Delete that the backend handles and answers with a success status
\* resolves, whatever the body of the answer.
C20_DeleteEmptyBodySucceeds ==
    [][\A id \in Ids(conversations) :
          ( /\ deleteConversationHandler(id)
            /\ id \in Ids(server.conversations)
            /\ id \notin Ids(server'.conversations) )
          => calls'[Len(calls')].res.ok]_vars

\* C21: isLoading is true whenever a Create or a SendMessage is in flight.
C21_BusyWhileCreateOrSendInFlight ==
    BusyCalls(calls) > 0 => isLoading

\* C22: the reply or the ErrorHandler message of a turn is appended only
\* while the conversation the turn was sent in is the active one.
C22_ReplyGoesToItsConversation ==
    [][\A i \in 1..Len(calls) :
          ( /\ sendChatMessageSettled(i) \/ sendRenameSettled(i)
            /\ messages' # messages )
          => calls[i].active = activeConversationId]_vars

\* C23: the continuation of a successful chat call appends the reply, which
\* is no ErrorHandler message, and the continuations of the rename and of
\* the refresh that follow it leave messages as they were, failed or not.
C23_ErrorMessageOnlyForFailedChat ==
    [][\A i \in 1..Len(calls) :
          /\ (sendChatMessageSettled(i) /\ calls[i].res.ok)
             => /\ Len(messages') = Len(messages) + 1
                /\ ~IsErrorHandlerMessage(messages'[Len(messages')])
          /\ (sendRenameSettled(i) \/ sendRefreshSettled(i))
             => messages' = messages]_vars

\* C24: the step that completes a Delete of a conversation that is not the
\* active one at that moment leaves activeConversationId and messages as
\* they were.
C24_DeleteOfInactiveKeepsActive ==
    [][\A i \in 1..Len(calls) :
          ( /\ deleteConversationSettled(i)
            /\ calls[i].arg # activeConversationId )
          => UNCHANGED <<activeConversationId, messages>>]_vars

\* The calls of a sequence, as a set.
CallSet(cs) == {cs[i] : i \in 1..Len(cs)}

\* C25: the continuation of a successful chat call appends the reply and
\* then issues the rename, on a first turn, or the List; the continuation of
\* a successful rename issues the List; a sendMessage call awaits the List
\* only through one of these two steps, and the List it then awaits answers
\* with the backend's list of that moment; the continuation of a successful
\* List leaves conversations equal to the returned list.
C25_RefreshAfterReply ==
    [][ /\ \A i \in 1..Len(calls) :
              /\ (sendChatMessageSettled(i) /\ calls[i].res.ok)
                 => /\ Len(messages') = Len(messages) + 1
                    /\ ~messages'[Len(messages')].isUser
                    /\ messages'[Len(messages')].content = calls[i].res.chat.response
                    /\ calls'[i].await = IF calls[i].first
                                         THEN "updateConversationTitle"
                                         ELSE "getUserConversations"
              /\ (sendRenameSettled(i) /\ calls[i].res.ok)
                 => calls'[i].await = "getUserConversations"
              /\ (sendRefreshSettled(i) /\ calls[i].res.ok)
                 => conversations' = calls[i].res.list
        /\ \A c \in Awaiting(calls', "sendMessage", "getUserConversations")
                     \ CallSet(calls) :
              /\ c.res.ok => c.res.list = server'.conversations
              /\ \E i \in 1..Len(calls) :
                    /\ calls[i].res.ok
                    /\ \/ sendChatMessageSettled(i) /\ ~calls[i].first
                       \/ sendRenameSettled(i) ]_vars

\* a first turn got its reply and its title, and its refresh is in flight
C25_Witness ==
    \E c \in Awaiting(calls, "sendMessage", "getUserConversations") :
        /\ c.first
        /\ c.res.ok
        /\ c.active = activeConversationId
        /\ Len(messages) = 2
        /\ ~messages[2].isUser
        /\ \E k \in 1..Len(conversations) :
              /\ conversations[k].conversation_id = c.active
              /\ conversations[k].title = autoTitle(c.content)
              /\ conversations[k] \in CallSet(c.res.list)

\* C26: no two entries of conversations have the same conversation id.
C26_ConversationIdsDistinct ==
    \A j, k \in 1..Len(conversations) :
        j # k => conversations[j].conversation_id # conversations[k].conversation_id

\* C27: no two entries of messages have the same id.
C27_MessageIdsDistinct ==
    \A j, k \in 1..Len(messages) :
        j # k => messages[j].id # messages[k].id

\* The title C28 describes for a first message.
ExpectedTitle(content) ==
    IF Len(content) <= 30
    THEN content
    ELSE SubSeq(content, 1, 30) \o <<".", ".", ".">>

\* C28: the title of a first turn is the content when it has at most 30
\* characters and otherwise its first 30 characters followed by "..."; the
\* rename request the backend handles carries that title, and the
\* continuation of the successful rename writes the same title into the
\* entry of the conversation the turn was sent in, and into no other.
C28_AutoTitle ==
    [][\A i \in 1..Len(calls) :
          /\ ( /\ sendChatMessageSettled(i)
               /\ calls[i].res.ok /\ calls[i].first
               /\ calls'[i].res.ok )
             => Find(server'.conversations, calls[i].active).title =
                   ExpectedTitle(calls[i].content)
          /\ (sendRenameSettled(i) /\ calls[i].res.ok)
             => /\ Len(conversations') = Len(conversations)
                /\ \A k \in 1..Len(conversations) :
                      conversations'[k] =
                         IF conversations[k].conversation_id = calls[i].active
                         THEN [conversations[k] EXCEPT
                                 !.title = ExpectedTitle(calls[i].content)]
                         ELSE conversations[k]]_vars

\* the active conversation carries, locally and on the backend, the first
\* 30 characters of the long content followed by the ellipsis
C28_Witness ==
    \E k \in 1..Len(conversations) :
        /\ conversations[k].conversation_id = activeConversationId
        /\ conversations[k].title = SubSeq(LongContent, 1, 30) \o <<".", ".", ".">>
        /\ conversations[k] \in CallSet(server.conversations)
        /\ messages # <<>>

====
